---- MODULE Spec2Model ----
(***************************************************************************)
(* PV Finder (src/pv_finder_app.py): the schema normalizer, the date and   *)
(* latest-flag derivation, the query engine and the upload session of the  *)
(* Streamlit script, as state machines.                                    *)
(*                                                                         *)
(* Text is a sequence of one-character strings, so that strip(), lower(),  *)
(* str(), float(), split() and the regular-expression search the script    *)
(* relies on are computed character by character.                          *)
(***************************************************************************)
EXTENDS Integers, Sequences, FiniteSets, TLC

VARIABLES
  pc,        \* position of the script run that the specification follows
  raw,       \* headers of the uploaded sheet, as pd.read_excel returns them
  df,        \* the frame the normalizer works on: a sequence of columns
  upload,    \* rows of the uploaded sheet (canonical headers), in sheet order
  base,      \* the record table the masks are evaluated on
  st,        \* st.session_state: the widgets' values
  result,    \* what the run displays: status and rows, or an error
  up,        \* content of the file uploader widget
  allow_upload,  \* whether the PIN gate lets the uploader show
  uploaded_df,   \* the run's uploaded_df: None or the loaded table
  last_updated,  \* st.session_state.last_updated: the clock of the last load, 0 for None
  clock,     \* the run's dt.datetime.now(), as a run counter
  prior      \* history: the table of the last successful load of the session

vars == << pc, raw, df, upload, base, st, result, up, allow_upload,
           uploaded_df, last_updated, clock, prior >>

normVars == << raw, df >>
evalVars == << upload, base, st, result >>
sessVars == << up, allow_upload, uploaded_df, last_updated, clock, prior >>

None == "None"

\* The file uploader: empty, a file pd.read_excel cannot read, or a sheet.
NoFile == [kind |-> "none", rows |-> << >>]

Corrupt == [kind |-> "corrupt", rows |-> << >>]

Sheet(rows) == [kind |-> "xlsx", rows |-> rows]

\* uploaded_df: None, or the table of this run's load.
NotLoaded == [loaded |-> FALSE, rows |-> << >>]

Loaded(rows) == [loaded |-> TRUE, rows |-> rows]

-----------------------------------------------------------------------------
(* Characters and text *)

\* Printable ASCII in code-point order, from 32 (space) to 126 (~), without
\* the backquote.
Ascii ==
  << " ", "!", "\"", "#", "$", "%", "&", "'", "(", ")", "*", "+", ",", "-",
     ".", "/", "0", "1", "2", "3", "4", "5", "6", "7", "8", "9", ":", ";",
     "<", "=", ">", "?", "@",
     "A", "B", "C", "D", "E", "F", "G", "H", "I", "J", "K", "L", "M",
     "N", "O", "P", "Q", "R", "S", "T", "U", "V", "W", "X", "Y", "Z",
     "[", "\\", "]", "^", "_",
     "a", "b", "c", "d", "e", "f", "g", "h", "i", "j", "k", "l", "m",
     "n", "o", "p", "q", "r", "s", "t", "u", "v", "w", "x", "y", "z",
     "{", "|", "}", "~" >>

\* The rank of c in code-point order: c < d in Python iff Ord(c) < Ord(d).
OrdTable == [c \in {Ascii[k] : k \in 1..Len(Ascii)} |->
               CHOOSE k \in 1..Len(Ascii) : Ascii[k] = c]

Ord(c) == OrdTable[c]

IsUpper(c) == Ord(c) >= Ord("A") /\ Ord(c) <= Ord("Z")

IsDigit(c) == Ord(c) >= Ord("0") /\ Ord(c) <= Ord("9")

\* str.lower() on one character: A-Z move to a-z, the rest stays.
LowerTable == [c \in DOMAIN OrdTable |->
                 IF IsUpper(c) THEN Ascii[Ord(c) + (Ord("a") - Ord("A"))] ELSE c]

LowerChar(c) == LowerTable[c]

\* str.lower()
Lower(s) == [i \in 1..Len(s) |-> LowerChar(s[i])]

IsSpace(c) == c = " "

\* str.strip(): leading and trailing whitespace removed.
Strip(s) ==
  LET keep == {i \in 1..Len(s) : ~IsSpace(s[i])}
  IN  IF keep = {} THEN << >>
      ELSE LET lo == CHOOSE i \in keep : \A j \in keep : i <= j
               hi == CHOOSE i \in keep : \A j \in keep : j <= i
           IN  SubSeq(s, lo, hi)

\* Python's str ordering: lexicographic by code point.
StrLess(a, b) ==
  \E k \in 1..(Len(b)) :
     /\ k <= Len(a) + 1
     /\ \A j \in 1..(k - 1) : a[j] = b[j]
     /\ (k = Len(a) + 1 \/ Ord(a[k]) < Ord(b[k]))

\* `sub in s` for str: sub occurs in s as a contiguous run of characters.
IsSubstring(sub, s) ==
  \E i \in 0..(Len(s) - Len(sub)) : SubSeq(s, i + 1, i + Len(sub)) = sub

Min(S) == CHOOSE x \in S : \A y \in S : x <= y

Max(S) == CHOOSE x \in S : \A y \in S : y <= x

-----------------------------------------------------------------------------
(* Required columns and aliases *)

REQUIRED_COLUMNS ==
  << <<"P","V","N","u","m","b","e","r">>,
     <<"P","V","S","t","a","t","u","s">>,
     <<"D","e","s","c","r","i","p","t","i","o","n">>,
     <<"D","o","c","u","m","e","n","t","T","y","p","e">>,
     <<"N","o","t","e","F","o","r","M","a","r","k","e","t","i","n","g">>,
     <<"C","a","s","e","T","y","p","e","D","e","s","c","r","i","p","t","o","r">>,
     <<"A","i","r","F","i","l","l","D","e","s","c","r","i","p","t","o","r">>,
     <<"C","o","d","e","D","a","t","e">>,
     <<"S","a","l","e","s","C","l","a","s","s">>,
     <<"S","i","z","e">>,
     <<"S","h","a","p","e">>,
     <<"C","a","s","e","s","P","e","r","L","a","y","e","r","(","T","I",")">>,
     <<"H","I","(","L","a","y","e","r","s","/","P","a","l","l","e","t",")">>,
     <<"T","o","t","a","l","N","u","m","b","e","r","O","f","C","a","s","e","s","P","e","r","P","a","l","l","e","t">>,
     <<"B","a","g","s","O","r","T","r","a","y","s","P","e","r","L","a","y","e","r">> >>

HEADER_ALIASES ==
  <<
     [canon |-> <<"P","V","N","u","m","b","e","r">>,
      alts  |-> << <<"p","v"," ","n","u","m","b","e","r">>,
                 <<"p","v","_","n","u","m","b","e","r">>,
                 <<"p","v"," ","n","o">>,
                 <<"p","v","n","o">>,
                 <<"p","v"," ","n","u","m">>,
                 <<"p","v"," ","i","d">> >>],
     [canon |-> <<"P","V","S","t","a","t","u","s">>,
      alts  |-> << <<"p","v"," ","s","t","a","t","u","s">>,
                 <<"s","t","a","t","u","s">>,
                 <<"p","v"," ","d","e","t","a","i","l","s">>,
                 <<"p","v","_","s","t","a","t","u","s">> >>],
     [canon |-> <<"D","e","s","c","r","i","p","t","i","o","n">>,
      alts  |-> << <<"d","e","s","c","r","i","p","t","i","o","n">>,
                 <<"d","e","s","c">>,
                 <<"p","r","o","d","u","c","t"," ","d","e","s","c","r","i","p","t","i","o","n">> >>],
     [canon |-> <<"D","o","c","u","m","e","n","t","T","y","p","e">>,
      alts  |-> << <<"d","o","c","u","m","e","n","t"," ","t","y","p","e">>,
                 <<"d","o","c","t","y","p","e">>,
                 <<"d","o","c"," ","t","y","p","e">>,
                 <<"d","o","c","_","t","y","p","e">> >>],
     [canon |-> <<"N","o","t","e","F","o","r","M","a","r","k","e","t","i","n","g">>,
      alts  |-> << <<"n","o","t","e"," ","f","o","r"," ","m","a","r","k","e","t","i","n","g">>,
                 <<"m","a","r","k","e","t","i","n","g"," ","n","o","t","e">>,
                 <<"n","o","t","e","s"," ","m","a","r","k","e","t","i","n","g">>,
                 <<"n","o","t","e","_","m","a","r","k","e","t","i","n","g">> >>],
     [canon |-> <<"C","a","s","e","T","y","p","e","D","e","s","c","r","i","p","t","o","r">>,
      alts  |-> << <<"c","a","s","e"," ","t","y","p","e"," ","d","e","s","c","r","i","p","t","o","r">>,
                 <<"c","a","s","e"," ","t","y","p","e">>,
                 <<"c","a","s","e"," ","d","e","s","c","r","i","p","t","o","r">> >>],
     [canon |-> <<"A","i","r","F","i","l","l","D","e","s","c","r","i","p","t","o","r">>,
      alts  |-> << <<"a","i","r"," ","f","i","l","l"," ","d","e","s","c","r","i","p","t","o","r">>,
                 <<"a","i","r","f","i","l","l"," ","d","e","s","c","r","i","p","t","o","r">>,
                 <<"a","i","r"," ","f","i","l","l">>,
                 <<"a","i","r","_","f","i","l","l">> >>],
     [canon |-> <<"C","o","d","e","D","a","t","e">>,
      alts  |-> << <<"c","o","d","e"," ","d","a","t","e">>,
                 <<"c","o","d","e","d","a","t","e">>,
                 <<"c","o","d","e","_","d","a","t","e">>,
                 <<"d","a","t","e"," ","c","o","d","e">>,
                 <<"m","f","g"," ","d","a","t","e">> >>],
     [canon |-> <<"S","a","l","e","s","C","l","a","s","s">>,
      alts  |-> << <<"s","a","l","e","s"," ","c","l","a","s","s">>,
                 <<"s","a","l","e","s","_","c","l","a","s","s">>,
                 <<"c","l","a","s","s">> >>],
     [canon |-> <<"S","i","z","e">>,
      alts  |-> << <<"s","i","z","e">>,
                 <<"p","a","c","k"," ","s","i","z","e">>,
                 <<"n","e","t"," ","w","e","i","g","h","t">>,
                 <<"w","e","i","g","h","t">> >>],
     [canon |-> <<"S","h","a","p","e">>,
      alts  |-> << <<"s","h","a","p","e">>,
                 <<"f","o","r","m","a","t">> >>],
     [canon |-> <<"C","a","s","e","s","P","e","r","L","a","y","e","r","(","T","I",")">>,
      alts  |-> << <<"c","a","s","e","s"," ","p","e","r"," ","l","a","y","e","r">>,
                 <<"c","a","s","e","s","/","l","a","y","e","r">>,
                 <<"t","i">>,
                 <<"c","a","s","e","s","_","p","e","r","_","l","a","y","e","r">>,
                 <<"c","a","s","e","s"," ","p","e","r"," ","l","a","y","e","r"," ","(","t","i",")">> >>],
     [canon |-> <<"H","I","(","L","a","y","e","r","s","/","P","a","l","l","e","t",")">>,
      alts  |-> << <<"h","i">>,
                 <<"l","a","y","e","r","s"," ","p","e","r"," ","p","a","l","l","e","t">>,
                 <<"l","a","y","e","r","s","/","p","a","l","l","e","t">>,
                 <<"l","a","y","e","r","s","_","p","e","r","_","p","a","l","l","e","t">> >>],
     [canon |-> <<"T","o","t","a","l","N","u","m","b","e","r","O","f","C","a","s","e","s","P","e","r","P","a","l","l","e","t">>,
      alts  |-> << <<"t","o","t","a","l"," ","c","a","s","e","s"," ","p","e","r"," ","p","a","l","l","e","t">>,
                 <<"t","o","t","a","l"," ","n","u","m","b","e","r"," ","o","f"," ","c","a","s","e","s"," ","p","e","r"," ","p","a","l","l","e","t">>,
                 <<"t","o","t","a","l"," ","c","a","s","e","s","/","p","a","l","l","e","t">> >>],
     [canon |-> <<"B","a","g","s","O","r","T","r","a","y","s","P","e","r","L","a","y","e","r">>,
      alts  |-> << <<"b","a","g","s"," ","p","e","r"," ","l","a","y","e","r">>,
                 <<"t","r","a","y","s"," ","p","e","r"," ","l","a","y","e","r">>,
                 <<"b","a","g","s","_","o","r","_","t","r","a","y","s","_","p","e","r","_","l","a","y","e","r">>,
                 <<"b","a","g","s","/","t","r","a","y","s"," ","p","e","r"," ","l","a","y","e","r">> >>]
  >>

NCols == Len(REQUIRED_COLUMNS)

-----------------------------------------------------------------------------
(* Schema normalizer.  A frame is a sequence of columns; a column is its   *)
(* label and its data.  The data of a column read from the sheet is the    *)
(* position the column had in the sheet (src); the data of a column of     *)
(* pd.NA has src = 0.                                                      *)

NACol == 0

Column(name, src) == [name |-> name, src |-> src]

\* df.columns
columns(d) == [i \in 1..Len(d) |-> d[i].name]

\* `c in df.columns`
InColumns(c, d) == \E i \in 1..Len(d) : d[i].name = c

\* pd.read_excel: one column per header cell, in sheet order.
read_excel(headers) == [i \in 1..Len(headers) |-> Column(headers[i], i)]

\* df.rename(columns=m): every label that is a key of m is replaced.
rename(d, m) ==
  [i \in 1..Len(d) |->
     IF d[i].name \in DOMAIN m THEN [d[i] EXCEPT !.name = m[d[i].name]]
     ELSE d[i]]

\* {c: c.strip() for c in df.columns}, as df.rename applies it.
strip_columns(d) ==
  rename(d, [c \in {d[i].name : i \in 1..Len(d)} |-> Strip(c)])

\* The keys of {c.lower(): c for c in df.columns}, in insertion order: a key
\* keeps the place of the first column that produced it.
lowered_keys(d) ==
  LET firsts == {i \in 1..Len(d) :
                   \A j \in 1..(i - 1) : Lower(d[j].name) # Lower(d[i].name)}
      RECURSIVE keys(_)
      keys(i) == IF i > Len(d) THEN << >>
                 ELSE IF i \in firsts THEN << Lower(d[i].name) >> \o keys(i + 1)
                 ELSE keys(i + 1)
  IN  keys(1)

\* lowered[low]: the value a key ends with is the last column that wrote it.
lowered_value(d, low) ==
  d[Max({i \in 1..Len(d) : Lower(d[i].name) = low})].name

\* re.compile(rf"^(?:{pattern})$", re.IGNORECASE).match(low): the whole of low
\* is one of the alternatives of the pattern, letter case ignored.
regex_match(alts, low) == \E k \in 1..Len(alts) : Lower(alts[k]) = Lower(low)

\* rename_map after the first k entries of HEADER_ALIASES were looked at;
\* keys are the keys of `lowered`.
RECURSIVE rename_map(_, _, _)
rename_map(d, keys, k) ==
  IF k = 0 THEN [h \in {} |-> h]
  ELSE LET prev == rename_map(d, keys, k - 1)
           canon == HEADER_ALIASES[k].canon
           hits  == {j \in 1..Len(keys) : regex_match(HEADER_ALIASES[k].alts, keys[j])}
       IN  IF InColumns(canon, d) \/ hits = {} THEN prev
           ELSE LET orig == lowered_value(d, keys[Min(hits)])
                IN  [h \in DOMAIN prev \cup {orig} |->
                       IF h = orig THEN canon ELSE prev[h]]

apply_header_aliases(d) ==
  rename(d, rename_map(d, lowered_keys(d), Len(HEADER_ALIASES)))

\* The loop of _ensure_required: a column of pd.NA is appended for every
\* required label the frame lacks.
RECURSIVE add_missing(_, _)
add_missing(d, k) ==
  IF k > NCols THEN d
  ELSE IF InColumns(REQUIRED_COLUMNS[k], d) THEN add_missing(d, k + 1)
  ELSE add_missing(Append(d, Column(REQUIRED_COLUMNS[k], NACol)), k + 1)

\* df[labels]: for each label in turn, every column that carries it.
RECURSIVE getitem(_, _, _)
getitem(d, labels, k) ==
  IF k > Len(labels) THEN << >>
  ELSE SelectSeq(d, LAMBDA col : col.name = labels[k]) \o getitem(d, labels, k + 1)

ensure_required(d) == getitem(add_missing(d, 1), REQUIRED_COLUMNS, 1)

-----------------------------------------------------------------------------
(* The normalizer run on the headers of an uploaded sheet (lines 119-122). *)

MaxCols == 3

\* Header cells a sheet may carry: canonical labels, padded and re-cased
\* spellings, aliases, a label that only contains an alias, and a stranger.
RawHeaders ==
  { <<"P","V","N","u","m","b","e","r">>,
    <<" ","P","V","N","u","m","b","e","r">>,
    <<"P","V"," ","N","o">>,
    <<"p","v"," ","n","o">>,
    <<"p","v","n","o"," ">>,
    <<"S","i","z","e">>,
    <<"s","i","z","e">>,
    <<"M","y"," ","S","i","z","e">>,
    <<"S","t","a","t","u","s">>,
    <<"R","a","n","d","o","m"," ","C","o","l","u","m","n">> }

\* pd.read_excel hands out distinct labels (a repeated header cell is
\* renamed "X.1"), so the headers of a sheet are pairwise different.
Sheets ==
  UNION { {h \in [1..n -> RawHeaders] : \A i, j \in 1..n : i # j => h[i] # h[j]}
          : n \in 0..MaxCols }

NoEval == [status |-> None]

InitNorm ==
  /\ raw \in Sheets
  /\ df = read_excel(raw)
  /\ pc = "read"
  /\ upload = << >> /\ base = << >> /\ st = None /\ result = NoEval
  /\ up = NoFile /\ allow_upload = FALSE /\ uploaded_df = NotLoaded
  /\ last_updated = 0 /\ clock = 0 /\ prior = NotLoaded

StripColumns ==
  /\ pc = "read"
  /\ df' = strip_columns(df)
  /\ pc' = "stripped"
  /\ UNCHANGED << raw, evalVars, sessVars >>

ApplyHeaderAliases ==
  /\ pc = "stripped"
  /\ df' = apply_header_aliases(df)
  /\ pc' = "aliased"
  /\ UNCHANGED << raw, evalVars, sessVars >>

EnsureRequired ==
  /\ pc = "aliased"
  /\ df' = ensure_required(df)
  /\ pc' = "normalized"
  /\ UNCHANGED << raw, evalVars, sessVars >>

NextNorm == StripColumns \/ ApplyHeaderAliases \/ EnsureRequired

SpecNorm == InitNorm /\ [][NextNorm]_vars

\* The header of sheet column i after _strip_columns.
Stripped(i) == Strip(raw[i])

StrippedLabels == {Stripped(i) : i \in 1..Len(raw)}

\* Sheet columns whose whole lowercased header is an alias of entry k.
AliasMatches(k) ==
  {i \in 1..Len(raw) : regex_match(HEADER_ALIASES[k].alts, Lower(Stripped(i)))}

\* C3: the table produced by strip -> alias -> ensure-required has exactly
\* the 15 canonical fields, each once, in canonical order, and a canonical
\* field no header of the sheet stands for is a column of missing values.
C3_CanonicalSchema ==
  pc = "normalized" =>
    /\ columns(df) = REQUIRED_COLUMNS
    /\ \A k \in 1..NCols :
         (REQUIRED_COLUMNS[k] \notin StrippedLabels /\ AliasMatches(k) = {})
           => df[k].src = NACol

\* C10: a header is renamed to a canonical field only when that field is not
\* present verbatim and the whole lowercased header equals one of its aliases;
\* the first matching header in column order is the one renamed; no two
\* headers are renamed to the same field; a header that is neither canonical
\* nor an alias is not in the canonical table.
C10_AliasRenaming ==
  /\ pc = "aliased" =>
       /\ \A i \in 1..Len(raw) :
            df[i].name # Stripped(i) =>
              \E k \in 1..NCols :
                 /\ df[i].name = HEADER_ALIASES[k].canon
                 /\ HEADER_ALIASES[k].canon \notin StrippedLabels
                 /\ i \in AliasMatches(k)
       /\ \A k \in 1..NCols :
            (HEADER_ALIASES[k].canon \notin StrippedLabels /\ AliasMatches(k) # {})
              => df[Min(AliasMatches(k))].name = HEADER_ALIASES[k].canon
       /\ \A i, j \in 1..Len(raw) :
            (i # j /\ df[i].name # Stripped(i) /\ df[j].name # Stripped(j))
              => df[i].name # df[j].name
  /\ pc = "normalized" =>
       \A i \in 1..Len(raw) :
          ( /\ \A k \in 1..NCols : Stripped(i) # REQUIRED_COLUMNS[k]
            /\ \A k \in 1..NCols : i \notin AliasMatches(k) )
            => \A c \in 1..Len(df) : df[c].src # i

-----------------------------------------------------------------------------
(* Cells, numbers and their conversions *)

\* A cell of the frame: text, a blank sheet cell (float nan), or pd.NA.
Text(s) == [kind |-> "text", text |-> s]

NaNCell == [kind |-> "nan", text |-> << >>]

NACell == [kind |-> "NA", text |-> << >>]

\* A float: a number or nan.
Num(v) == [nan |-> FALSE, v |-> v]

NaN == [nan |-> TRUE, v |-> 0]

\* Series.astype(str) on one cell.
astype_str(cell) ==
  IF cell.kind = "text" THEN cell.text
  ELSE IF cell.kind = "nan" THEN <<"n","a","n">>
  ELSE <<"<","N","A",">">>

IsDigits(s) == s # << >> /\ \A i \in 1..Len(s) : IsDigit(s[i])

\* The value of a string of decimal digits.
RECURSIVE DigitsValue(_)
DigitsValue(s) ==
  IF s = << >> THEN 0
  ELSE 10 * DigitsValue(SubSeq(s, 1, Len(s) - 1)) + (Ord(s[Len(s)]) - Ord("0"))

\* str(n) for an int n >= 0.
RECURSIVE str_int(_)
str_int(n) ==
  IF n < 10 THEN << Ascii[Ord("0") + n] >>
  ELSE str_int(n \div 10) \o << Ascii[Ord("0") + (n % 10)] >>

\* float(s): the number, or ValueError (ok = FALSE).  Texts here are made of
\* digits and letters only, so the signs, points and exponents float() also
\* reads do not occur.
float(s) ==
  IF IsDigits(s) THEN [ok |-> TRUE, v |-> DigitsValue(s)]
  ELSE [ok |-> FALSE, v |-> 0]

\* pd.to_numeric(cell, errors="coerce")
to_numeric(cell) ==
  IF cell.kind = "text" /\ IsDigits(cell.text) THEN Num(DigitsValue(cell.text))
  ELSE NaN

\* The position of a label in REQUIRED_COLUMNS.
Field(name) == CHOOSE k \in 1..NCols : REQUIRED_COLUMNS[k] = name

PVNumber == Field(<<"P","V","N","u","m","b","e","r">>)

CodeDate == Field(<<"C","o","d","e","D","a","t","e">>)

Shape == Field(<<"S","h","a","p","e">>)

\* r with field f set to v (a new column on a row).
WithField(r, f, v) ==
  [g \in DOMAIN r \cup {f} |-> IF g = f THEN v ELSE r[g]]

-----------------------------------------------------------------------------
(* Date derivation and latest flag.  A frame of records is a sequence of   *)
(* rows; idx is the row's index label, its position in the sheet.          *)

parse_code_date_numeric(rows) ==
  [i \in 1..Len(rows) |->
     WithField(rows[i], "CodeDate_num", to_numeric(rows[i].cells[CodeDate]))]

\* Order of two PVNumber cells under ascending sort, missing last.
KeyLess(a, b) ==
  /\ a.kind = "text"
  /\ (b.kind # "text" \/ StrLess(a.text, b.text))

\* Order of two CodeDate_num under descending sort, nan last.
DateBefore(a, b) == ~a.nan /\ (b.nan \/ a.v > b.v)

\* a sorts strictly before b under
\* sort_values(["PVNumber","CodeDate_num"], ascending=[True, False]).
SortsBefore(a, b) ==
  \/ KeyLess(a.cells[PVNumber], b.cells[PVNumber])
  \/ /\ ~KeyLess(b.cells[PVNumber], a.cells[PVNumber])
     /\ DateBefore(a.CodeDate_num, b.CodeDate_num)

\* The sort is stable (pandas sorts several keys with a lexsort): rows that
\* compare equal keep their order.
RECURSIVE sort_values(_)
sort_values(rows) ==
  IF rows = << >> THEN << >>
  ELSE LET n    == Len(rows)
           x    == rows[n]
           done == sort_values(SubSeq(rows, 1, n - 1))
           p    == Cardinality({i \in 1..(n - 1) : ~SortsBefore(x, done[i])})
       IN  SubSeq(done, 1, p) \o << x >> \o SubSeq(done, p + 1, n - 1)

\* duplicated with keep="last": the fault of flagging the last row of a group.
duplicated_keep_last(rows, i) ==
  \E j \in (i + 1)..Len(rows) : rows[j].cells[PVNumber] = rows[i].cells[PVNumber]

\* duplicated(subset=["PVNumber"], keep="first") for row i: an earlier row
\* has the same PVNumber (missing values count as equal).
duplicated(rows, i) ==
  \E j \in 1..(i - 1) : rows[j].cells[PVNumber] = rows[i].cells[PVNumber]

\* _latest_per_pv_flag returns the sorted copy.
latest_per_pv_flag(rows) ==
  LET tmp == sort_values(rows)
  IN  [i \in 1..Len(tmp) |-> WithField(tmp[i], "IsLatestPerPV", ~duplicated(tmp, i))]

\* The rows at the positions in keep, in frame order: df[mask].
take_rows(rows, keep) ==
  LET RECURSIVE take(_)
      take(i) == IF i > Len(rows) THEN << >>
                 ELSE IF i \in keep THEN << rows[i] >> \o take(i + 1)
                 ELSE take(i + 1)
  IN  take(1)

\* drop_duplicates(subset=["PVNumber"], keep="first")
drop_duplicates(rows) ==
  take_rows(rows, {i \in 1..Len(rows) : ~duplicated(rows, i)})

-----------------------------------------------------------------------------
(* Regular expressions, as Series.str.contains(pat) uses them (regex=True  *)
(* is its default).  Patterns are made of letters, ";", ".", "*", "|" and  *)
(* "(": the syntax below is Python's for these characters.                 *)

\* re.compile(p) raises re.error: a group that is never closed, or a "*"
\* with nothing to repeat or after another "*".
regex_error(p) ==
  \E i \in 1..Len(p) :
     \/ p[i] = "(" /\ \A j \in (i + 1)..Len(p) : p[j] # ")"
     \/ p[i] = "*" /\ (i = 1 \/ p[i - 1] \in {"*", "|", "("})

\* s.split(sep)
RECURSIVE split(_, _)
split(s, sep) ==
  LET at == {i \in 1..Len(s) : s[i] = sep}
  IN  IF at = {} THEN << s >>
      ELSE << SubSeq(s, 1, Min(at) - 1) >> \o split(SubSeq(s, Min(at) + 1, Len(s)), sep)

\* One pattern character against one character of the subject.
atom_matches(a, c) == a = "." \/ a = c

\* The pattern (no "|") matches a prefix of s.
RECURSIVE match_here(_, _)
match_here(p, s) ==
  IF p = << >> THEN TRUE
  ELSE IF Len(p) >= 2 /\ p[2] = "*"
  THEN \E n \in 0..Len(s) :
          /\ \A j \in 1..n : atom_matches(p[1], s[j])
          /\ match_here(SubSeq(p, 3, Len(p)), SubSeq(s, n + 1, Len(s)))
  ELSE /\ s # << >>
       /\ atom_matches(p[1], s[1])
       /\ match_here(Tail(p), Tail(s))

\* re.search(p, s) finds a match, for a pattern that compiles.
regex_search(p, s) ==
  LET alts == split(p, "|")
  IN  \E a \in 1..Len(alts) : \E i \in 0..Len(s) :
         match_here(alts[a], SubSeq(s, i + 1, Len(s)))

\* Series.str.contains(pat, case=..., na=False) on one rendered value.
str_contains(s, pat, case) ==
  IF case THEN regex_search(pat, s) ELSE regex_search(Lower(pat), Lower(s))

-----------------------------------------------------------------------------
(* Query engine: lines 166-260 of the script, on the widgets' values s.    *)

\* The columns the basic multiselects are drawn for.
basic_cols ==
  << PVNumber,
     Field(<<"P","V","S","t","a","t","u","s">>),
     Field(<<"D","o","c","u","m","e","n","t","T","y","p","e">>),
     Field(<<"C","a","s","e","T","y","p","e","D","e","s","c","r","i","p","t","o","r">>),
     Field(<<"S","a","l","e","s","C","l","a","s","s">>),
     Shape,
     Field(<<"S","i","z","e">>) >>

\* The options of a multiselect: base[col].dropna().astype(str).unique()
options(rows, col) ==
  {astype_str(rows[i].cells[col]) :
     i \in {j \in 1..Len(rows) : rows[j].cells[col].kind = "text"}}

\* A text input of the date range: typed by the user, or left at the value
\* the script fills in.
Untouched == [typed |-> FALSE, text |-> << >>]

Typed(s) == [typed |-> TRUE, text |-> s]

\* min_str and max_str: the inputs are drawn only if some record has a date,
\* and then default to the smallest and largest date of the table (whole
\* numbers here, which int() leaves as they are).
date_inputs(rows, s) ==
  LET vals == {rows[i].CodeDate_num.v :
                 i \in {j \in 1..Len(rows) : ~rows[j].CodeDate_num.nan}}
  IN  IF vals # {}
      THEN [min_str |-> IF s.min_in.typed THEN s.min_in.text ELSE str_int(Min(vals)),
            max_str |-> IF s.max_in.typed THEN s.max_in.text ELSE str_int(Max(vals))]
      ELSE [min_str |-> << >>, max_str |-> << >>]

\* A mask: the positions of the rows it keeps, or the exception it raised.
Keeps(S) == [raised |-> FALSE, keep |-> S]

Raises == [raised |-> TRUE, keep |-> {}]

\* Lines 224-230: q is a pattern searched in every required column.
global_mask(rows, s) ==
  LET q == Lower(Strip(s.query))
  IN  IF q = << >> THEN Keeps(1..Len(rows))
      ELSE IF regex_error(q) THEN Raises
      ELSE Keeps({i \in 1..Len(rows) :
                    \E col \in 1..NCols :
                       str_contains(Lower(astype_str(rows[i].cells[col])), q, TRUE)})

\* Lines 232-234.
basic_mask(rows, s) ==
  Keeps({i \in 1..Len(rows) :
           \A col \in DOMAIN s.basic_filters :
              s.basic_filters[col] # {} =>
                 astype_str(rows[i].cells[col]) \in s.basic_filters[col]})

\* The items of an "in list" operand.
list_items(val) ==
  LET parts == split(val, ";")
  IN  {Strip(parts[k]) : k \in {j \in 1..Len(parts) : Strip(parts[j]) # << >>}}

\* Lines 236-245, one column.
adv_keeps(cell, cond) ==
  LET series == astype_str(cell)
  IN  IF cond.mode = "contains" THEN str_contains(series, cond.value, FALSE)
      ELSE IF cond.mode = "equals" THEN Lower(series) = Lower(cond.value)
      ELSE IF cond.mode = "in list" THEN series \in list_items(cond.value)
      ELSE TRUE

advanced_mask(rows, s) ==
  IF \E col \in DOMAIN s.adv_filters :
        s.adv_filters[col].mode = "contains" /\ regex_error(s.adv_filters[col].value)
  THEN Raises
  ELSE Keeps({i \in 1..Len(rows) :
                \A col \in DOMAIN s.adv_filters :
                   adv_keeps(rows[i].cells[col], s.adv_filters[col])})

\* date_range_mask with nan passing the comparison: the fault of keeping
\* undated records under an active range.
date_range_mask_keeps_undated(rows, min_str, max_str) ==
  IF min_str # << >> /\ max_str # << >> /\ float(min_str).ok /\ float(max_str).ok
  THEN Keeps({i \in 1..Len(rows) :
                \/ rows[i].CodeDate_num.nan
                \/ /\ rows[i].CodeDate_num.v >= float(min_str).v
                   /\ rows[i].CodeDate_num.v <= float(max_str).v})
  ELSE Keeps(1..Len(rows))

\* Lines 247-252: the range applies when both inputs are non-empty and both
\* parse; a ValueError of float() is swallowed.
date_range_mask(rows, min_str, max_str) ==
  IF min_str # << >> /\ max_str # << >> /\ float(min_str).ok /\ float(max_str).ok
  THEN Keeps({i \in 1..Len(rows) :
                /\ ~rows[i].CodeDate_num.nan
                /\ rows[i].CodeDate_num.v >= float(min_str).v
                /\ rows[i].CodeDate_num.v <= float(max_str).v})
  ELSE Keeps(1..Len(rows))

\* keep_latest sorting on CodeDate_num alone: the fault of a dedup that puts
\* the newest records of the whole frame first.
keep_latest_by_date(filtered, s) ==
  LET RECURSIVE by_date(_)
      by_date(rows) ==
        IF rows = << >> THEN << >>
        ELSE LET n    == Len(rows)
                 x    == rows[n]
                 done == by_date(SubSeq(rows, 1, n - 1))
                 p    == Cardinality({i \in 1..(n - 1) :
                                        ~DateBefore(x.CodeDate_num, done[i].CodeDate_num)})
             IN  SubSeq(done, 1, p) \o << x >> \o SubSeq(done, p + 1, n - 1)
  IN  IF s.keep_latest_only THEN drop_duplicates(by_date(filtered)) ELSE filtered

\* Lines 254-257.
keep_latest(filtered, s) ==
  IF s.keep_latest_only THEN drop_duplicates(sort_values(filtered)) ELSE filtered

Shown(rows) == [status |-> "ok", rows |-> rows]

Failed == [status |-> "error", rows |-> << >>]

\* The run from line 166 to the display: the rows shown, or the exception
\* that ended the run.
evaluate(rows, s) ==
  LET d  == date_inputs(rows, s)
      g  == global_mask(rows, s)
      b  == basic_mask(rows, s)
      a  == advanced_mask(rows, s)
      r  == date_range_mask(rows, d.min_str, d.max_str)
  IN  IF g.raised \/ b.raised \/ a.raised \/ r.raised THEN Failed
      ELSE Shown(keep_latest(
             take_rows(rows, g.keep \cap b.keep \cap a.keep \cap r.keep), s))

-----------------------------------------------------------------------------
(* One load and one evaluation (lines 123-125 and 166-260) on a normalized *)
(* sheet.                                                                  *)

MaxRows == 3

\* A row of a normalized sheet that had the columns PVNumber, CodeDate and
\* Shape; the other required columns are columns of pd.NA.
Row(i, pv, date, shape) ==
  [idx   |-> i,
   cells |-> [k \in 1..NCols |->
                IF k = PVNumber THEN pv
                ELSE IF k = CodeDate THEN date
                ELSE IF k = Shape THEN shape
                ELSE NACell]]

PVValues == { Text(<<"P","1">>), Text(<<"P","2">>), NaNCell }

\* "9" < "10" as numbers and "10" < "9" as text.
DateValues == { Text(<<"9">>), Text(<<"1","0">>), NaNCell }

DatedSheets ==
  UNION { { [i \in 1..n |-> Row(i, f[i][1], f[i][2], NACell)] :
              f \in [1..n -> PVValues \X DateValues] }
          : n \in 0..MaxRows }

\* What the user may leave in a date input.
DateInputs ==
  { Untouched, Typed(<< >>), Typed(<<"9">>), Typed(<<"1","0">>), Typed(<<"x">>) }

NoBasic == [col \in {basic_cols[k] : k \in 1..Len(basic_cols)} |-> {}]

NoAdvanced == [col \in {} |-> col]

InitEval(sheets) ==
  /\ upload \in sheets
  /\ base = upload
  /\ pc = "normalized"
  /\ st = None /\ result = NoEval
  /\ raw = << >> /\ df = << >>
  /\ up = NoFile /\ allow_upload = FALSE /\ uploaded_df = NotLoaded
  /\ last_updated = 0 /\ clock = 0 /\ prior = NotLoaded

ParseCodeDateNumeric ==
  /\ pc = "normalized"
  /\ base' = parse_code_date_numeric(base)
  /\ pc' = "parsed"
  /\ UNCHANGED << upload, st, result, normVars, sessVars >>

LatestPerPvFlag ==
  /\ pc = "parsed"
  /\ base' = latest_per_pv_flag(base)
  /\ pc' = "loaded"
  /\ UNCHANGED << upload, st, result, normVars, sessVars >>

\* The rest of the run, with the widgets holding s.
Evaluate(s) ==
  /\ pc = "loaded"
  /\ st' = s
  /\ result' = evaluate(base, s)
  /\ pc' = "evaluated"
  /\ UNCHANGED << upload, base, normVars, sessVars >>

\* Queries on dates: a date range and the latest toggle.
EvaluateDates ==
  \E keep \in BOOLEAN, mn \in DateInputs, mx \in DateInputs :
     Evaluate([query            |-> << >>,
               basic_filters    |-> NoBasic,
               adv_filters      |-> NoAdvanced,
               keep_latest_only |-> keep,
               min_in           |-> mn,
               max_in           |-> mx])

InitDates == InitEval(DatedSheets)

NextDates == ParseCodeDateNumeric \/ LatestPerPvFlag \/ EvaluateDates

SpecDates == InitDates /\ [][NextDates]_vars

\* The index labels of the rows of a frame, as a set and in frame order.
IdxSet(rows) == {rows[i].idx : i \in 1..Len(rows)}

\* A date as the spec ranks it: missing is below every present date.
Rank(d) == IF d.nan THEN -1 ELSE d.v

SameGroup(a, b) == a.cells[PVNumber] = b.cells[PVNumber]

\* The widgets hold no text term, no selection and no advanced filter.
NoTextFilters ==
  /\ st.query = << >>
  /\ \A col \in DOMAIN st.basic_filters : st.basic_filters[col] = {}
  /\ DOMAIN st.adv_filters = {}

\* The mask alone: the run with the latest toggle off.
MaskedIdx == IdxSet(evaluate(base, [st EXCEPT !.keep_latest_only = FALSE]).rows)

\* C1: with keepLatestOnly the result is exactly the records that pass the
\* mask and carry the latest flag computed over the full table.
C1_LatestOverFullTable ==
  (pc = "evaluated" /\ st.keep_latest_only /\ result.status = "ok") =>
     IdxSet(result.rows) =
       {base[i].idx : i \in {j \in 1..Len(base) :
                               base[j].IsLatestPerPV /\ base[j].idx \in MaskedIdx}}

\* C2: after flagLatest every PVNumber group has exactly one record flagged
\* latest; it is the record with the greatest CodeDate_num, a missing date
\* counting below every present one, the earliest in sheet order among the
\* records that tie (so the first of a group without any date).
C2_OneLatestPerGroup ==
  pc \in {"loaded", "evaluated"} =>
    /\ Len(base) = Len(upload)
    /\ IdxSet(base) = IdxSet(upload)
    /\ \A i \in 1..Len(base) :
         /\ Cardinality({j \in 1..Len(base) :
                           SameGroup(base[i], base[j]) /\ base[j].IsLatestPerPV}) = 1
         /\ base[i].IsLatestPerPV <=>
              \A j \in 1..Len(base) :
                 (j # i /\ SameGroup(base[i], base[j])) =>
                    \/ Rank(base[j].CodeDate_num) < Rank(base[i].CodeDate_num)
                    \/ /\ Rank(base[j].CodeDate_num) = Rank(base[i].CodeDate_num)
                       /\ base[i].idx < base[j].idx

\* A group where two records tie on the greatest date, the later one in the
\* sheet comes with a third record of the group, and the flags are set.
C2_Witness ==
  /\ pc = "loaded"
  /\ \E i, j, k \in 1..Len(base) :
        /\ base[i].idx < base[j].idx /\ k # i /\ k # j
        /\ SameGroup(base[i], base[j]) /\ SameGroup(base[i], base[k])
        /\ ~base[i].CodeDate_num.nan
        /\ base[i].CodeDate_num = base[j].CodeDate_num
        /\ Rank(base[k].CodeDate_num) < Rank(base[i].CodeDate_num)
        /\ base[i].IsLatestPerPV

\* C4: the all-empty query (date inputs untouched, latest toggle off)
\* returns every record of the table, in the same order.
C4_EmptyQueryIdentity ==
  ( /\ pc = "evaluated" /\ NoTextFilters /\ ~st.keep_latest_only
    /\ ~st.min_in.typed /\ ~st.max_in.typed )
    => result = Shown(base)

\* Both bounds are given and parse as numbers.
RangeActive(d) ==
  d.min_str # << >> /\ d.max_str # << >> /\ float(d.min_str).ok /\ float(d.max_str).ok

\* C5: with both bounds parsing as numbers the date-range mask keeps a record
\* iff min <= CodeDate_num <= max, so never a record without a date; with a
\* bound empty or not a number the range excludes nothing; no error is raised.
C5_DateRangeMask ==
  (pc = "evaluated" /\ NoTextFilters /\ ~st.keep_latest_only) =>
    LET d == date_inputs(base, st)
    IN  /\ result.status = "ok"
        /\ IdxSet(result.rows) =
             {base[i].idx : i \in {j \in 1..Len(base) :
                RangeActive(d) =>
                  /\ ~base[j].CodeDate_num.nan
                  /\ float(d.min_str).v <= base[j].CodeDate_num.v
                  /\ base[j].CodeDate_num.v <= float(d.max_str).v}}

\* An active range typed by the user kept a record, excluded a dated record
\* and excluded a record without a date.
C5_Witness ==
  /\ pc = "evaluated" /\ NoTextFilters /\ ~st.keep_latest_only
  /\ st.min_in.typed /\ st.max_in.typed
  /\ RangeActive(date_inputs(base, st))
  /\ result.rows # << >>
  /\ \E i, j \in 1..Len(base) :
        /\ base[i].CodeDate_num.nan /\ base[i].idx \notin IdxSet(result.rows)
        /\ ~base[j].CodeDate_num.nan /\ base[j].idx \notin IdxSet(result.rows)

PosInBase(x) == CHOOSE k \in 1..Len(base) : base[k].idx = x

-----------------------------------------------------------------------------
(* One load and one evaluation on a sheet with a text column, under the    *)
(* text filters.                                                           *)

MaxTextRows == 2

MaxOperandLen == 2

\* Values of the Shape column.
TextValues ==
  { Text(<<"C","h","i","p">>), Text(<<"c">>), Text(<<"c",".">>), NaNCell }

TextSheets ==
  UNION { { [i \in 1..n |-> Row(i, NACell, NACell, f[i])] : f \in [1..n -> TextValues] }
          : n \in 1..MaxTextRows }

\* Characters the user types into the search box and the operand boxes.
OperandChars == { "c", "H", ";", ".", "*", "|", "(" }

Operands == UNION { [1..n -> OperandChars] : n \in 1..MaxOperandLen }

Modes == { "contains", "equals", "in list" }

PlainQuery ==
  [query            |-> << >>,
   basic_filters    |-> NoBasic,
   adv_filters      |-> NoAdvanced,
   keep_latest_only |-> FALSE,
   min_in           |-> Untouched,
   max_in           |-> Untouched]

\* Queries on text: a global term, or one Shape choice, or one advanced
\* filter on Shape (the script stores one only with a mode and a value).
EvaluateText ==
  \/ \E q \in Operands \cup {<< >>} :
        Evaluate([PlainQuery EXCEPT !.query = q])
  \/ \E v \in options(base, Shape) :
        Evaluate([PlainQuery EXCEPT !.basic_filters[Shape] = {v}])
  \/ \E mode \in Modes, value \in Operands :
        Evaluate([PlainQuery EXCEPT
                    !.adv_filters = [col \in {Shape} |-> [mode |-> mode, value |-> value]]])

InitText == InitEval(TextSheets)

NextText == ParseCodeDateNumeric \/ LatestPerPvFlag \/ EvaluateText

SpecText == InitText /\ [][NextText]_vars

\* C7: whatever the global term and the advanced-filter operand, the run
\* yields a result table: no operand makes evaluation raise.
C7_EvaluationNeverRaises == pc = "evaluated" => result.status = "ok"

\* C8: an advanced "contains" filter keeps a record iff the operand, as a
\* literal string compared without regard to case, is a substring of the
\* text rendering of the field's value.
C8_ContainsIsLiteral ==
  ( /\ pc = "evaluated" /\ result.status = "ok"
    /\ DOMAIN st.adv_filters = {Shape}
    /\ st.adv_filters[Shape].mode = "contains" )
    => IdxSet(result.rows) =
         {base[i].idx : i \in {j \in 1..Len(base) :
            IsSubstring(Lower(st.adv_filters[Shape].value),
                        Lower(astype_str(base[j].cells[Shape])))}}

-----------------------------------------------------------------------------
(* The session: Streamlit runs the whole script again after every          *)
(* interaction.  Only st.session_state and the widgets' contents outlive a *)
(* run; uploaded_df is a variable of the run.  Sheets here carry canonical *)
(* headers, which lines 120-122 leave as they are.                         *)

MaxRuns == 4

MaxSessionRows == 1

SessionFiles ==
  {Corrupt} \cup {Sheet(rows) : rows \in {s \in DatedSheets : Len(s) \in 1..MaxSessionRows}}

\* Lines 114-135 and, unless st.stop() ends the run, 166-260: the run with
\* the uploader holding file, the PIN gate at allow, the widgets holding s.
ScriptRun(file, allow, s) ==
  LET read  == allow /\ file.kind = "xlsx"
      table == latest_per_pv_flag(parse_code_date_numeric(file.rows))
  IN  /\ clock' = clock + 1
      /\ uploaded_df' = IF read THEN Loaded(table) ELSE NotLoaded
      /\ last_updated' = IF read THEN clock + 1 ELSE last_updated
      /\ result' = IF read THEN evaluate(table, s) ELSE NoEval
      /\ prior' = IF read THEN Loaded(table) ELSE prior
      /\ UNCHANGED << pc, upload, base, normVars >>

\* The session starts with the PIN box empty: the first run shows no
\* uploader and stops.
InitSession ==
  /\ pc = "session"
  /\ up = NoFile /\ allow_upload = FALSE /\ uploaded_df = NotLoaded
  /\ last_updated = 0 /\ clock = 0 /\ prior = NotLoaded
  /\ st = PlainQuery /\ result = NoEval
  /\ raw = << >> /\ df = << >> /\ upload = << >> /\ base = << >>

\* The PIN box is edited.  An uploader that is not drawn loses its file.
EnterPin ==
  /\ clock < MaxRuns
  /\ \E ok \in BOOLEAN :
        /\ allow_upload' = ok
        /\ up' = IF ok THEN up ELSE NoFile
        /\ st' = st
        /\ ScriptRun(up', ok, st)

\* A file is dropped on the uploader.
UploadFile ==
  /\ clock < MaxRuns
  /\ allow_upload
  /\ \E f \in SessionFiles :
        /\ up' = f
        /\ UNCHANGED << allow_upload, st >>
        /\ ScriptRun(f, allow_upload, st)

\* The file is removed from the uploader.
RemoveFile ==
  /\ clock < MaxRuns
  /\ allow_upload /\ up.kind # "none"
  /\ up' = NoFile
  /\ UNCHANGED << allow_upload, st >>
  /\ ScriptRun(NoFile, allow_upload, st)

\* The latest toggle is flipped; it is drawn only in a run that loaded.
ToggleKeepLatest ==
  /\ clock < MaxRuns
  /\ uploaded_df.loaded
  /\ st' = [st EXCEPT !.keep_latest_only = ~st.keep_latest_only]
  /\ UNCHANGED << up, allow_upload >>
  /\ ScriptRun(up, allow_upload, st')

NextSession == EnterPin \/ UploadFile \/ RemoveFile \/ ToggleKeepLatest

SpecSession == InitSession /\ [][NextSession]_vars

\* C6: a failed load affects only that attempt: a table loaded earlier in the
\* session is still the one queries are evaluated against, and nothing is
\* evaluated on the payload of the failed load.
C6_FailedLoadKeepsPriorTable ==
  (allow_upload /\ up.kind = "corrupt") =>
     IF prior.loaded THEN result = evaluate(prior.rows, st)
     ELSE result = NoEval

====
